---- MODULE Spec2Model ----
(***************************************************************************)
(* Model of the ordinal-type crate (src/src/lib.rs): the tuple struct      *)
(* Ordinal<T>(pub T), its Display implementation, suffix(), to_primitive() *)
(* and the twelve to_<width>() methods, plus the derived Eq / Ord.         *)
(*                                                                         *)
(* Strings are sequences of one-character strings, so that rendering a     *)
(* number, ends_with and concatenation are computed as the code computes   *)
(* them.  Values are mathematical integers of magnitude below              *)
(* 2^ValueBits; a target type wider than ValueBits bits can only reject a  *)
(* value of the model for its sign.                                        *)
(***************************************************************************)
EXTENDS Integers, Sequences, FiniteSets

VARIABLES T, self, orig, op, arg, ret, pc, calls

vars == <<T, self, orig, op, arg, ret, pc, calls>>

(* ---------------------------- bounds ----------------------------------- *)

\* values -MaxMag .. MaxMag are enumerated as wrapped values
MaxMag == 125
\* the right-hand operands of == and cmp are -MaxArg .. MaxArg
MaxArg == 3
\* every value of the model has magnitude below 2^ValueBits
ValueBits == 17
\* the number of calls made on the instance is counted up to MaxCalls
MaxCalls == 2

(* ---------------------------- types ------------------------------------ *)

Unsigned == {"u8", "u16", "u32", "u64", "u128", "usize"}

SignedT == {"i8", "i16", "i32", "i64", "i128", "isize"}

Primitives == Unsigned \cup SignedT

BigTypes == {"BigInt", "BigUint"}

Types == Primitives \cup BigTypes

Bits(t) ==
  CASE t \in {"u8", "i8"} -> 8
    [] t \in {"u16", "i16"} -> 16
    [] t \in {"u32", "i32"} -> 32
    [] t \in {"u64", "i64", "usize", "isize"} -> 64
    [] t \in {"u128", "i128"} -> 128

RECURSIVE Pow2(_)
Pow2(k) == IF k = 0 THEN 1 ELSE 2 * Pow2(k - 1)

\* <t>::MIN and <t>::MAX, for the types narrower than the model's values
TypeMin(t) == IF t \in Unsigned THEN 0 ELSE -Pow2(Bits(t) - 1)

TypeMax(t) == IF t \in Unsigned THEN Pow2(Bits(t)) - 1 ELSE Pow2(Bits(t) - 1) - 1

\* v is a value of the primitive type t
Fits(v, t) ==
  IF Bits(t) > ValueBits
    THEN t \in SignedT \/ v >= 0
    ELSE TypeMin(t) <= v /\ v <= TypeMax(t)

Narrow == {t \in Primitives : Bits(t) <= ValueBits}

EdgeValues ==
  UNION {{TypeMin(t) - 1, TypeMin(t), TypeMax(t), TypeMax(t) + 1} : t \in Narrow}

Values == (-MaxMag .. MaxMag) \cup EdgeValues \cup {300}

\* v is a value of the backing type t (BigInt and BigUint are unbounded)
InType(v, t) ==
  CASE t = "BigInt" -> TRUE
    [] t = "BigUint" -> v >= 0
    [] OTHER -> Fits(v, t)

ValuesOf(t) == {v \in Values : InType(v, t)}

ArgsOf(t) == {v \in -MaxArg .. MaxArg : InType(v, t)}

(* ---------------------------- strings ---------------------------------- *)

DigitChar(d) == <<"0", "1", "2", "3", "4", "5", "6", "7", "8", "9">>[d + 1]

RECURSIVE Digits(_)
Digits(n) == IF n < 10 THEN <<DigitChar(n)>>
             ELSE Append(Digits(n \div 10), DigitChar(n % 10))

\* <T as Display>::fmt / to_string of the wrapped integer
int_to_string(n) == IF n < 0 THEN <<"-">> \o Digits(-n) ELSE Digits(n)

\* <t as Display>::fmt, the rendering self.0.to_string() and "{}" dispatch
\* to: an unsigned type writes its digits; a signed type writes '-' and the
\* digits of the magnitude, which it forms outside its own width
display(t, n) ==
  IF t \in Unsigned \cup {"BigUint"} THEN Digits(n) ELSE int_to_string(n)

\* str::ends_with
ends_with(s, pat) ==
  /\ Len(pat) <= Len(s)
  /\ SubSeq(s, Len(s) - Len(pat) + 1, Len(s)) = pat

(* ---------------------------- results ---------------------------------- *)

Ok(v) == [status |-> "ok", value |-> v]

Panic(msg) == [status |-> "panic", value |-> msg]

Some(v) == [some |-> TRUE, value |-> v]

None == [some |-> FALSE, value |-> 0]

\* Option::expect
expect(o, msg) == IF o.some THEN Ok(o.value) ELSE Panic(msg)

(* ---------------------------- Ordinal<T> ------------------------------- *)

\* pub struct Ordinal<T>(pub T): a tuple struct of one field
Ordinal(n) == <<n>>

\* suffix without the 11 / 12 / 13 exception
suffix_no_teen(s) ==
  LET last_digits == int_to_string(s[1]) IN
  IF ends_with(last_digits, <<"1">>) THEN <<"s", "t">>
  ELSE IF ends_with(last_digits, <<"2">>) THEN <<"n", "d">>
  ELSE IF ends_with(last_digits, <<"3">>) THEN <<"r", "d">>
  ELSE <<"t", "h">>

\* suffix with the results of the '2' and '3' branches exchanged
suffix_swapped(s) ==
  LET last_digits == int_to_string(s[1]) IN
  IF ends_with(last_digits, <<"1">>) /\ ~ends_with(last_digits, <<"1", "1">>)
    THEN <<"s", "t">>
  ELSE IF ends_with(last_digits, <<"2">>) /\ ~ends_with(last_digits, <<"1", "2">>)
    THEN <<"r", "d">>
  ELSE IF ends_with(last_digits, <<"3">>) /\ ~ends_with(last_digits, <<"1", "3">>)
    THEN <<"n", "d">>
  ELSE <<"t", "h">>

\* suffix with the exception tested by == on the whole string, not ends_with
suffix_whole_string(s) ==
  LET last_digits == int_to_string(s[1]) IN
  IF ends_with(last_digits, <<"1">>) /\ last_digits # <<"1", "1">>
    THEN <<"s", "t">>
  ELSE IF ends_with(last_digits, <<"2">>) /\ last_digits # <<"1", "2">>
    THEN <<"n", "d">>
  ELSE IF ends_with(last_digits, <<"3">>) /\ last_digits # <<"1", "3">>
    THEN <<"r", "d">>
  ELSE <<"t", "h">>

\* the remainder rule of step 3 applied with Rust's truncating % to a
\* primitive value, the string rule kept for BigInt and BigUint
suffix_of_rem(t, s) ==
  LET n == s[1]
      r100 == IF n < 0 THEN -((-n) % 100) ELSE n % 100
      r10 == IF n < 0 THEN -((-n) % 10) ELSE n % 10
      last_digits == display(t, n)
  IN IF t \in Primitives
       THEN IF r100 \in {11, 12, 13} THEN <<"t", "h">>
            ELSE IF r10 = 1 THEN <<"s", "t">>
            ELSE IF r10 = 2 THEN <<"n", "d">>
            ELSE IF r10 = 3 THEN <<"r", "d">>
            ELSE <<"t", "h">>
     ELSE IF ends_with(last_digits, <<"1">>) /\ ~ends_with(last_digits, <<"1", "1">>)
       THEN <<"s", "t">>
     ELSE IF ends_with(last_digits, <<"2">>) /\ ~ends_with(last_digits, <<"1", "2">>)
       THEN <<"n", "d">>
     ELSE IF ends_with(last_digits, <<"3">>) /\ ~ends_with(last_digits, <<"1", "3">>)
       THEN <<"r", "d">>
     ELSE <<"t", "h">>

\* Ordinal::<t>::suffix: the generic method instantiated at the type t
suffix_of(t, s) ==
  LET last_digits == display(t, s[1]) IN
  IF ends_with(last_digits, <<"1">>) /\ ~ends_with(last_digits, <<"1", "1">>)
    THEN <<"s", "t">>
  ELSE IF ends_with(last_digits, <<"2">>) /\ ~ends_with(last_digits, <<"1", "2">>)
    THEN <<"n", "d">>
  ELSE IF ends_with(last_digits, <<"3">>) /\ ~ends_with(last_digits, <<"1", "3">>)
    THEN <<"r", "d">>
  ELSE <<"t", "h">>

\* Ordinal::suffix on the instance, of backing type T
suffix(s) == suffix_of(T, s)

\* fmt writing the magnitude of the value, without its sign
fmt_abs(s) ==
  [status |-> "ok",
   out |-> Digits(IF s[1] < 0 THEN -s[1] ELSE s[1]) \o suffix(s)]

\* fmt reporting fmt::Error for a negative value
fmt_err(s) ==
  IF s[1] < 0 THEN [status |-> "err", out |-> <<>>]
  ELSE [status |-> "ok", out |-> int_to_string(s[1]) \o suffix(s)]

\* impl Display for Ordinal<t>: write!(f, "{}{}", self.0, self.suffix())
fmt_of(t, s) == [status |-> "ok", out |-> display(t, s[1]) \o suffix_of(t, s)]

\* <Ordinal<T> as Display>::fmt on the instance, of backing type T
fmt(s) == fmt_of(T, s)

\* ToString::to_string of an Ordinal<t>
to_string_of(t, s) ==
  IF fmt_of(t, s).status = "ok" THEN Ok(fmt_of(t, s).out)
  ELSE Panic("a Display implementation returned an error unexpectedly")

\* ToString::to_string through the Display implementation
to_string(s) ==
  IF fmt(s).status = "ok" THEN Ok(fmt(s).out)
  ELSE Panic("a Display implementation returned an error unexpectedly")

\* to_primitive returning T::default()
to_primitive_default(s) == 0

\* Ordinal::to_primitive: self.0.clone()
to_primitive(s) == s[1]

\* to_<t> comparing with < where <= is meant: <t>::MAX itself is rejected
checked_to_exclusive(v, t) ==
  IF Fits(v, t) /\ (Bits(t) > ValueBits \/ v < TypeMax(t)) THEN Some(v) ELSE None

\* ToPrimitive::to_<t> of the wrapped value: Some when it fits, else None
checked_to(v, t) == IF Fits(v, t) THEN Some(v) ELSE None

\* to_<t> with unwrap_or_default() in place of expect()
narrow_or_default(s, t) ==
  IF checked_to(s[1], t).some THEN Ok(checked_to(s[1], t).value) ELSE Ok(0)

\* Ordinal::to_<t>: self.0.to_<t>().expect("Failed to convert to <t>")
narrow(s, t) == expect(checked_to(s[1], t), <<"Failed to convert to ", t>>)

\* derive(PartialEq, Eq): field-wise equality
Ordinal_eq(a, b) == a[1] = b[1]

\* byte order of the characters that occur in a formatted ordinal
CharRank(c) ==
  CASE c = "-" -> 0
    [] c = "0" -> 1 [] c = "1" -> 2 [] c = "2" -> 3 [] c = "3" -> 4
    [] c = "4" -> 5 [] c = "5" -> 6 [] c = "6" -> 7 [] c = "7" -> 8
    [] c = "8" -> 9 [] c = "9" -> 10
    [] c = "d" -> 11 [] c = "h" -> 12 [] c = "n" -> 13 [] c = "r" -> 14
    [] c = "s" -> 15 [] c = "t" -> 16

RECURSIVE str_cmp(_, _)
str_cmp(x, y) ==
  IF x = <<>> /\ y = <<>> THEN "Equal"
  ELSE IF x = <<>> THEN "Less"
  ELSE IF y = <<>> THEN "Greater"
  ELSE IF CharRank(Head(x)) < CharRank(Head(y)) THEN "Less"
  ELSE IF CharRank(Head(x)) > CharRank(Head(y)) THEN "Greater"
  ELSE str_cmp(Tail(x), Tail(y))

\* comparison of the formatted strings instead of the wrapped values
Ordinal_cmp_str(a, b) == str_cmp(to_string(a).value, to_string(b).value)

\* derive(PartialOrd, Ord): field-wise comparison
Ordinal_cmp(a, b) ==
  IF a[1] < b[1] THEN "Less" ELSE IF a[1] = b[1] THEN "Equal" ELSE "Greater"

\* to_ordinal with a truncating cast of the value to 8 bits
to_ordinal_as_u8(n) == Ordinal(n % 256)

\* <t as ToOrdinal>::to_ordinal: Ordinal(*self)
to_ordinal(n) == Ordinal(n)

(* ---------------------------- state machine ---------------------------- *)

Init ==
  /\ T \in Types
  /\ orig \in ValuesOf(T)
  /\ self = Ordinal(orig)
  /\ op = "new"
  /\ arg = 0
  /\ ret = Ok(0)
  /\ pc = "running"
  /\ calls = 0

\* a call returns to the caller, or unwinds with a panic
Return(name, r) ==
  /\ op' = name
  /\ ret' = r
  /\ pc' = IF r.status = "panic" THEN "panicked" ELSE "running"
  /\ calls' = IF calls < MaxCalls THEN calls + 1 ELSE calls
  /\ UNCHANGED <<T, orig>>

\* suffix taking self.0.abs() in the value's own width, where the negation
\* of T::MIN overflows and panics
CallSuffix_checked_abs ==
  /\ pc = "running"
  /\ arg' = 0
  /\ self' = self
  /\ Return("suffix",
            IF T \in SignedT /\ Bits(T) <= ValueBits /\ self[1] = TypeMin(T)
              THEN Panic("attempt to negate with overflow")
              ELSE Ok(suffix(self)))

CallSuffix ==
  /\ pc = "running"
  /\ arg' = 0
  /\ self' = self
  /\ Return("suffix", Ok(suffix(self)))

CallToString ==
  /\ pc = "running"
  /\ arg' = 0
  /\ self' = self
  /\ Return("to_string", to_string(self))

\* to_primitive moving the value out (mem::take) instead of cloning it
CallToPrimitive_take ==
  /\ pc = "running"
  /\ arg' = 0
  /\ self' = Ordinal(0)
  /\ Return("to_primitive", Ok(to_primitive(self)))

CallToPrimitive ==
  /\ pc = "running"
  /\ arg' = 0
  /\ self' = self
  /\ Return("to_primitive", Ok(to_primitive(self)))

NarrowTo(t) ==
  /\ pc = "running"
  /\ arg' = 0
  /\ self' = self
  /\ Return(t, narrow(self, t))

to_u8 == NarrowTo("u8")

to_u16 == NarrowTo("u16")

to_u32 == NarrowTo("u32")

to_u64 == NarrowTo("u64")

to_u128 == NarrowTo("u128")

to_usize == NarrowTo("usize")

to_i8 == NarrowTo("i8")

to_i16 == NarrowTo("i16")

to_i32 == NarrowTo("i32")

to_i64 == NarrowTo("i64")

to_i128 == NarrowTo("i128")

to_isize == NarrowTo("isize")

CallEq ==
  /\ pc = "running"
  /\ \E b \in ArgsOf(T) :
       /\ arg' = b
       /\ self' = self
       /\ Return("eq", Ok(Ordinal_eq(self, Ordinal(b))))

CallCmp ==
  /\ pc = "running"
  /\ \E b \in ArgsOf(T) :
       /\ arg' = b
       /\ self' = self
       /\ Return("cmp", Ok(Ordinal_cmp(self, Ordinal(b))))

\* n.to_ordinal() on the integer the instance was built from; the trait is
\* implemented for the primitive types only
CallToOrdinal ==
  /\ pc = "running"
  /\ T \in Primitives
  /\ arg' = 0
  /\ self' = self
  /\ Return("to_ordinal", Ok(to_ordinal(orig)))

Next ==
  \/ CallSuffix
  \/ CallToString
  \/ CallToPrimitive
  \/ to_u8
  \/ to_u16
  \/ to_u32
  \/ to_u64
  \/ to_u128
  \/ to_usize
  \/ to_i8
  \/ to_i16
  \/ to_i32
  \/ to_i64
  \/ to_i128
  \/ to_isize
  \/ CallEq
  \/ CallCmp
  \/ CallToOrdinal

Spec == Init /\ [][Next]_vars

TypeOK ==
  /\ T \in Types
  /\ orig \in Values
  /\ op \in {"new", "suffix", "to_string", "to_primitive", "eq", "cmp",
              "to_ordinal"} \cup Primitives
  /\ pc \in {"running", "panicked"}
  /\ ret.status \in {"ok", "panic"}
  /\ calls \in 0 .. MaxCalls

(* ---------------------------- properties ------------------------------- *)

Abs(n) == IF n < 0 THEN -n ELSE n

Teen(n) == Abs(n) % 100 \in {11, 12, 13}

NarrowOps == Primitives

\* the result each operation gives on the instance s with operand b
ResultOf(o, s, b) ==
  CASE o = "suffix" -> Ok(suffix(s))
    [] o = "to_string" -> to_string(s)
    [] o = "to_primitive" -> Ok(to_primitive(s))
    [] o = "eq" -> Ok(Ordinal_eq(s, Ordinal(b)))
    [] o = "cmp" -> Ok(Ordinal_cmp(s, Ordinal(b)))
    [] o = "to_ordinal" -> Ok(to_ordinal(s[1]))
    [] o \in NarrowOps -> narrow(s, o)

\* C1: when the magnitude of the wrapped value modulo 100 is 11, 12 or 13,
\* suffix() returns "th", whatever the last digit is.
C1_TeenIsTh ==
  (op = "suffix" /\ Teen(self[1])) => ret = Ok(<<"t", "h">>)

C1_Witness ==
  op = "suffix" /\ self[1] = -112 /\ ret = Ok(<<"t", "h">>)

\* C2: when the magnitude modulo 100 is not 11, 12 or 13, suffix() follows
\* the magnitude modulo 10: 1 "st", 2 "nd", 3 "rd", any other digit "th".
C2_LastDigitRule ==
  (op = "suffix" /\ ~Teen(self[1])) =>
    ret = Ok(CASE Abs(self[1]) % 10 = 1 -> <<"s", "t">>
               [] Abs(self[1]) % 10 = 2 -> <<"n", "d">>
               [] Abs(self[1]) % 10 = 3 -> <<"r", "d">>
               [] OTHER -> <<"t", "h">>)

C2_Witness ==
  op = "suffix" /\ self[1] = 123 /\ ret = Ok(<<"r", "d">>)

\* C3: suffix() of a value equals suffix() of the negated value; the minus
\* sign of the rendered value never changes the branch taken.
C3_SignIndependent ==
  op = "suffix" =>
    \A t2 \in Types :
      InType(-self[1], t2) => ret = Ok(suffix_of(t2, Ordinal(-self[1])))

C3_Witness ==
  op = "suffix" /\ self[1] = -1 /\ ret = Ok(<<"s", "t">>)

\* C4: to_string() is the decimal rendering of the value, minus sign
\* included, immediately followed by suffix(); -4 gives "-4th" and 121
\* gives "121st".
C4_DisplayIsValueThenSuffix ==
  op = "to_string" =>
    /\ ret = Ok(int_to_string(self[1]) \o suffix(self))
    /\ self[1] = -4 => ret.value = <<"-", "4", "t", "h">>
    /\ self[1] = 121 => ret.value = <<"1", "2", "1", "s", "t">>

C4_Witness ==
  op = "to_string" /\ self[1] = -4 /\ ret = Ok(<<"-", "4", "t", "h">>)

\* C5: to_<width>() returns exactly the wrapped value when it lies in the
\* range of the target type and fails otherwise; it never returns a
\* truncated or wrapped-around value.
C5_NarrowExactOrFail ==
  op \in NarrowOps =>
    /\ Fits(self[1], op) => ret = Ok(self[1])
    /\ ~Fits(self[1], op) => ret.status # "ok"

C5_Witness ==
  /\ op = "u8" /\ self[1] = 300 /\ ret.status # "ok"
  /\ TypeMax("u8") = 255

\* C6: a to_<width>() call on a value that does not fit the target type
\* gives the caller a recoverable error result and the caller continues;
\* it is not a panic.
C6_RecoverableError ==
  (op \in NarrowOps /\ ~Fits(self[1], op)) =>
    ret.status = "err" /\ pc = "running"

\* C7: suffix() and to_string() complete with a result for every
\* constructed value and never fail.
C7_FormattingNeverFails ==
  op \in {"suffix", "to_string"} =>
    /\ ret.status = "ok"
    /\ pc = "running"
    /\ op = "suffix" =>
         ret.value \in {<<"s", "t">>, <<"n", "d">>, <<"r", "d">>, <<"t", "h">>}

C7_Witness ==
  /\ op = "to_string" /\ T = "i16" /\ self[1] = TypeMin("i16")
  /\ ret.status = "ok" /\ pc = "running"

\* C8: to_primitive() returns the value the Ordinal was constructed from,
\* unchanged, and never fails.
C8_ExtractIsIdentity ==
  op = "to_primitive" => ret = Ok(orig) /\ pc = "running"

C8_Witness ==
  op = "to_primitive" /\ orig = -128 /\ ret = Ok(-128)

\* C9: Ordinal(a) == Ordinal(b) exactly when a = b, and Ordinal(a) compares
\* to Ordinal(b) as a compares to b numerically.
C9_CompareByValue ==
  /\ op = "eq" => ret = Ok(orig = arg)
  /\ op = "cmp" =>
       ret = Ok(IF orig < arg THEN "Less"
                ELSE IF orig > arg THEN "Greater" ELSE "Equal")

C9_Witness ==
  op = "cmp" /\ orig = 10 /\ arg = 2 /\ ret = Ok("Greater")

\* C10: every call leaves the wrapped value as it was constructed, and
\* returns what the same operation returns on a freshly constructed
\* instance, whatever calls came before it.
C10_CallsDoNotMutate ==
  [][/\ self' = self
     /\ self = Ordinal(orig)
     /\ ret' = ResultOf(op', Ordinal(orig), arg')]_vars

C10_Witness ==
  /\ calls = MaxCalls /\ op = "to_string" /\ self = Ordinal(-11)
  /\ ret = Ok(<<"-", "1", "1", "t", "h">>)

\* C11: a value representable in two backing types has the same suffix()
\* and the same to_string() under both.
C11_SameAcrossTypes ==
  \A t2 \in Types :
    InType(self[1], t2) =>
      /\ op = "suffix" => ret = Ok(suffix_of(t2, self))
      /\ op = "to_string" => ret = to_string_of(t2, self)

C11_Witness ==
  /\ op = "to_string" /\ T = "BigInt" /\ self[1] = 121
  /\ InType(121, "u8") /\ InType(121, "i8")
  /\ ret = to_string_of("u8", self)
  /\ ret = to_string_of("i8", self)
  /\ ret = Ok(<<"1", "2", "1", "s", "t">>)

\* C12: for a value n of a primitive type, n.to_ordinal() equals Ordinal(n)
\* and formats to the same string; the call leaves n and the existing
\* instance unchanged.
C12_ToOrdinalIsOrdinal ==
  [][op' = "to_ordinal" =>
       /\ T \in Primitives
       /\ orig' = orig
       /\ self' = self
       /\ ret' = Ok(Ordinal(orig))
       /\ Ordinal_eq(ret'.value, Ordinal(orig))
       /\ to_string_of(T, ret'.value) = to_string_of(T, Ordinal(orig))]_vars

C12_Witness ==
  /\ op = "to_ordinal" /\ T = "u16" /\ orig = 300
  /\ ret = Ok(Ordinal(300))
  /\ to_string(ret.value) = Ok(<<"3", "0", "0", "t", "h">>)

\* C13: for the minimum value of a signed fixed-width type, whose negation
\* is not a value of the type, suffix() and to_string() return the result
\* for its magnitude ("th", "-128th" for i8) and do not overflow.
C13_SignedMinFormats ==
  (T \in SignedT /\ Bits(T) <= ValueBits /\ self[1] = TypeMin(T)) =>
    /\ ~InType(-self[1], T)
    /\ op = "suffix" => ret = Ok(<<"t", "h">>) /\ pc = "running"
    /\ op = "to_string" =>
         /\ ret = Ok(<<"-">> \o Digits(Pow2(Bits(T) - 1)) \o <<"t", "h">>)
         /\ pc = "running"
         /\ T = "i8" => ret.value = <<"-", "1", "2", "8", "t", "h">>

C13_Witness ==
  /\ op = "to_string" /\ T = "i8" /\ self[1] = -128 /\ TypeMin("i8") = -128
  /\ ret = Ok(<<"-", "1", "2", "8", "t", "h">>)

\* the range of the primitive type t2 contains the range of t1
RangeContains(t2, t1) ==
  IF (t1 \in Unsigned) = (t2 \in Unsigned) THEN Bits(t2) >= Bits(t1)
  ELSE t1 \in Unsigned /\ Bits(t2) > Bits(t1)

\* C14: narrowing an Ordinal of a fixed-width type W to W itself, or to a
\* type whose range contains that of W, always succeeds and returns the
\* same value as to_primitive().
C14_WideningNeverFails ==
  (op \in NarrowOps /\ T \in Primitives /\ RangeContains(op, T)) =>
    ret = Ok(to_primitive(self)) /\ pc = "running"

C14_Witness ==
  /\ op = "u8" /\ T = "u8" /\ self[1] = TypeMax("u8")
  /\ ret = Ok(255) /\ pc = "running"

====
